---- MODULE Spec2Model ----
(***************************************************************************)
(* Aho-Corasick automaton builder of FailureLinks.py: trie insertion       *)
(* (add_pattern) and breadth-first failure-link computation                *)
(* (build_failure_links).                                                  *)
(*                                                                         *)
(* Nodes live in an arena: a node is identified by its position in `nodes` *)
(* (the Python object identity, in allocation order); node_id is a         *)
(* separate field, as in the source. A children dict is a sequence of      *)
(* <<char, node>> pairs in insertion order (Python dicts iterate in        *)
(* insertion order). A pattern is a sequence of characters.                *)
(***************************************************************************)
EXTENDS Integers, Sequences, FiniteSets, TLC

VARIABLES
    nodes,          \* the TrieNode objects, by identity
    node_counter,   \* AhoCorasick.node_counter
    pc,             \* "idle": no call in progress; "bfs": inside build_failure_links' while
                    \* loop; "returned": an introspection call has returned and the caller
                    \* holds its outcome in ret
    queue,          \* the deque of build_failure_links (node identities)
    inserted,       \* history: the arguments of the add_pattern calls, in call order
    builds,         \* history: number of completed build_failure_links calls
    dirty,          \* history: add_pattern was called after the latest completed build
    before,         \* history: `nodes` at the start of a build call made on an automaton
                    \* whose links are already built and unchanged since; <<>> otherwise
    enqueued,       \* history: the nodes appended to the deque by the latest build call, in order
    dequeued,       \* history: the nodes popped from the deque by the latest build call, in order
    ret             \* the outcome of the latest get_path_to_node or
                    \* get_failure_links_representation call; NoReturn after any other call

vars == <<nodes, node_counter, pc, queue, inserted, builds, dirty, before,
          enqueued, dequeued, ret>>

(* ------------------------------ bounds --------------------------------- *)
MaxNodes == 5
MaxAdds == 2
MaxBuilds == 2

Alphabet == {"a", "b"}

\* The arguments add_pattern is called with: every string over Alphabet, the
\* empty string included, that fits the node bound.
Patterns == UNION {[1..k -> Alphabet] : k \in 0..(MaxNodes - 1)}

(* ------------------------------ TrieNode ------------------------------- *)
\* The identities of the nodes of a trie.
NodeSet(ns) == 1..Len(ns)

None == -1
Root == 1

TrieNode ==
    [children |-> <<>>, is_end |-> FALSE, failure |-> None,
     output |-> <<>>, node_id |-> None]

\* A membership test that never finds the key.
HasChildNever(ns, n, c) == FALSE

\* char in node.children
HasChild(ns, n, c) ==
    \E i \in 1..Len(ns[n].children) : ns[n].children[i][1] = c

\* node.children[char]
GetChild(ns, n, c) ==
    LET i == CHOOSE j \in 1..Len(ns[n].children) : ns[n].children[j][1] = c
    IN  ns[n].children[i][2]

(* ---------------------------- AhoCorasick ------------------------------ *)
\* A constructor that leaves out `self.root.failure = self.root`.
NewAutomatonNoSelfLoop ==
    [nodes |-> <<[TrieNode EXCEPT !.node_id = 0]>>, node_counter |-> 1]

\* __init__: the root is its own failure node and takes id 0.
NewAutomaton ==
    [nodes |-> <<[TrieNode EXCEPT !.failure = Root, !.node_id = 0]>>,
     node_counter |-> 1]

\* Node creation that leaves out `self.node_counter += 1`.
CreateChildNoIncrement(ac, node, char) ==
    LET new == Len(ac.nodes) + 1
        linked == [ac.nodes EXCEPT ![node].children = Append(@, <<char, new>>)]
    IN  [nodes |-> Append(linked, [TrieNode EXCEPT !.node_id = ac.node_counter]),
         node_counter |-> ac.node_counter]

\* Node creation that rebinds the children dict (`node.children = {char: TrieNode()}`).
CreateChildReplacing(ac, node, char) ==
    LET new == Len(ac.nodes) + 1
        linked == [ac.nodes EXCEPT ![node].children = <<<<char, new>>>>]
    IN  [nodes |-> Append(linked, [TrieNode EXCEPT !.node_id = ac.node_counter]),
         node_counter |-> ac.node_counter + 1]

\* The body of `if char not in node.children`: a fresh TrieNode becomes the
\* child of node by char and takes the next id.
CreateChild(ac, node, char) ==
    LET new == Len(ac.nodes) + 1
        linked == [ac.nodes EXCEPT ![node].children = Append(@, <<char, new>>)]
    IN  [nodes |-> Append(linked, [TrieNode EXCEPT !.node_id = ac.node_counter]),
         node_counter |-> ac.node_counter + 1]

\* Terminal marking that takes "terminal" to mean "leaf".
MarkEndLeafOnly(ac, node, pattern) ==
    [ac EXCEPT !.nodes[node].is_end = (ac.nodes[node].children = <<>>),
               !.nodes[node].output = Append(@, pattern)]

\* Terminal marking that records a pattern once (`if pattern not in node.output`).
MarkEndDeduplicating(ac, node, pattern) ==
    [ac EXCEPT !.nodes[node].is_end = TRUE,
               !.nodes[node].output =
                   IF \E i \in 1..Len(@) : @[i] = pattern THEN @ ELSE Append(@, pattern)]

\* The two statements after add_pattern's for loop.
MarkEnd(ac, node, pattern) ==
    [ac EXCEPT !.nodes[node].is_end = TRUE,
               !.nodes[node].output = Append(@, pattern)]

\* add_pattern's for loop from position i on, then MarkEnd.
RECURSIVE AddWalk(_, _, _, _)
AddWalk(ac, node, pattern, i) ==
    IF i > Len(pattern)
    THEN MarkEnd(ac, node, pattern)
    ELSE LET char == pattern[i]
             grown == IF HasChild(ac.nodes, node, char)
                      THEN ac
                      ELSE CreateChild(ac, node, char)
         IN  AddWalk(grown, GetChild(grown.nodes, node, char), pattern, i + 1)

add_pattern(ac, pattern) == AddWalk(ac, Root, pattern, 1)

\* build_failure_links, the first loop: every child of the root fails to the
\* root and is enqueued, in dict order.
InitDepthOne(ns) ==
    LET kids == ns[Root].children
        isKid(n) == \E i \in 1..Len(kids) : kids[i][2] = n
    IN  [nodes |-> [n \in 1..Len(ns) |->
                        IF isKid(n) THEN [ns[n] EXCEPT !.failure = Root] ELSE ns[n]],
         queue |-> [i \in 1..Len(kids) |-> kids[i][2]]]

\* A walk that never follows a failure link (the while loop left out).
FailureWalkNone(ns, failure_node, char) == failure_node

\* The inner while loop: follow failure links from failure_node until a node
\* with a transition for char, or the root.
RECURSIVE FailureWalk(_, _, _)
FailureWalk(ns, failure_node, char) ==
    IF failure_node # Root /\ ~HasChild(ns, failure_node, char)
    THEN FailureWalk(ns, ns[failure_node].failure, char)
    ELSE failure_node

\* A walk that starts at current itself (`failure_node = current`).
CandidateFromCurrent(ns, current, char) == FailureWalk(ns, current, char)

\* The node the walk for the child of current by char ends at: it starts at
\* current.failure.
Candidate(ns, current, char) == FailureWalk(ns, ns[current].failure, char)

\* The naive choice: the walk starts at current itself and nothing guards
\* against the child being found as its own failure node.
FailureTargetFromCurrent(ns, current, char, child) ==
    LET failure_node == FailureWalk(ns, current, char)
    IN  IF HasChild(ns, failure_node, char)
        THEN GetChild(ns, failure_node, char)
        ELSE Root

\* The failure link chosen for `child`, the child of `current` by `char`.
FailureTarget(ns, current, char, child) ==
    LET failure_node == Candidate(ns, current, char)
    IN  IF HasChild(ns, failure_node, char) /\ GetChild(ns, failure_node, char) # child
        THEN GetChild(ns, failure_node, char)
        ELSE Root

\* Propagation at the wrong end (`child.output = child.failure.output + child.output`).
ExtendOutputPrepending(ns, child) ==
    [ns EXCEPT ![child].output = ns[ns[child].failure].output \o @]

\* Propagation left out.
ExtendOutputSkipped(ns, child) == ns

\* child.output.extend(child.failure.output)
ExtendOutput(ns, child) ==
    [ns EXCEPT ![child].output = @ \o ns[ns[child].failure].output]

\* The body of `for char, child in current.children.items()` for one child.
ProcessChild(ns, current, char, child) ==
    ExtendOutput([ns EXCEPT ![child].failure = FailureTarget(ns, current, char, child)],
                 child)

\* A for loop that leaves out `queue.append(child)`.
RECURSIVE ProcessChildrenNoEnqueue(_, _, _)
ProcessChildrenNoEnqueue(st, current, i) ==
    IF i > Len(st.nodes[current].children)
    THEN st
    ELSE LET char == st.nodes[current].children[i][1]
             child == st.nodes[current].children[i][2]
         IN  ProcessChildrenNoEnqueue(
                 [nodes |-> ProcessChild(st.nodes, current, char, child),
                  queue |-> st.queue],
                 current, i + 1)

\* The for loop over current's children from position i on.
RECURSIVE ProcessChildren(_, _, _)
ProcessChildren(st, current, i) ==
    IF i > Len(st.nodes[current].children)
    THEN st
    ELSE LET char == st.nodes[current].children[i][1]
             child == st.nodes[current].children[i][2]
         IN  ProcessChildren([nodes |-> ProcessChild(st.nodes, current, char, child),
                              queue |-> Append(st.queue, child)],
                             current, i + 1)

\* A pop from the wrong end (`queue.pop()`), which makes the traversal depth-first.
PopRight(q) == [node |-> q[Len(q)], rest |-> SubSeq(q, 1, Len(q) - 1)]

\* queue.popleft(): the node returned and what stays in the deque.
PopLeft(q) == [node |-> Head(q), rest |-> Tail(q)]

\* One iteration of `while queue`: popleft, then the for loop.
BfsIteration(st) ==
    LET popped == PopLeft(st.queue)
    IN  ProcessChildren([nodes |-> st.nodes, queue |-> popped.rest], popped.node, 1)

\* The while loop to its end.
RECURSIVE RunBfs(_)
RunBfs(st) == IF st.queue = <<>> THEN st.nodes ELSE RunBfs(BfsIteration(st))

\* build_failure_links as a function of the trie it is called on.
build_failure_links(ns) == RunBfs(InitDepthOne(ns))

\* Strings the introspection methods return are sequences of characters, as
\* the paths are.
ROOT == <<"R", "O", "O", "T">>
UNKNOWN == <<"U", "N", "K", "N", "O", "W", "N">>
NoneStr == <<"N", "o", "n", "e">>

\* find_path's None.
NotFound == [found |-> FALSE, path |-> <<>>]

\* A path grown at the wrong end (`char + path`).
PathPlusCharPrepending(path, char) == <<char>> \o path

\* find_path's `path + char`.
PathPlusChar(path, char) == Append(path, char)

\* get_path_to_node.find_path: depth-first search by identity along child
\* edges in dict order; the first path found, or None.
RECURSIVE find_path(_, _, _, _)
RECURSIVE FindInChildren(_, _, _, _, _)
find_path(ns, node, target_node, path) ==
    IF node = target_node
    THEN [found |-> TRUE, path |-> path]
    ELSE FindInChildren(ns, node, target_node, path, 1)
FindInChildren(ns, node, target_node, path, i) ==
    IF i > Len(ns[node].children)
    THEN NotFound
    ELSE LET char == ns[node].children[i][1]
             child == ns[node].children[i][2]
             result == find_path(ns, child, target_node, PathPlusChar(path, char))
         IN  IF result.found
             THEN result
             ELSE FindInChildren(ns, node, target_node, path, i + 1)

\* get_path_to_node: `find_path(self.root) or "UNKNOWN"` gives "UNKNOWN" when
\* find_path returns None (or an empty string).
get_path_to_node(ns, target_node) ==
    IF target_node = Root
    THEN ROOT
    ELSE LET result == find_path(ns, Root, target_node, <<>>)
         IN  IF result.found /\ result.path # <<>> THEN result.path ELSE UNKNOWN

\* Characters compare by code point.
CharOrder == <<"a", "b">>
Ord(c) == CHOOSE i \in 1..Len(CharOrder) : CharOrder[i] = c

\* sorted(node.children.items()): the (char, child) pairs by ascending char.
RECURSIVE Sorted(_)
Sorted(items) ==
    IF items = <<>>
    THEN <<>>
    ELSE LET m == CHOOSE i \in 1..Len(items) :
                      \A j \in 1..Len(items) : Ord(items[i][1]) <= Ord(items[j][1])
             rest == [i \in 1..(Len(items) - 1) |->
                          IF i < m THEN items[i] ELSE items[i + 1]]
         IN  <<items[m]>> \o Sorted(rest)

\* The dict traverse appends for node.
NodeRecord(ns, node, path) ==
    [node_id |-> ns[node].node_id,
     path |-> IF path # <<>> THEN path ELSE ROOT,
     failure_node_id |-> IF ns[node].failure # None
                         THEN ns[ns[node].failure].node_id
                         ELSE None,
     failure_path |-> IF ns[node].failure # None
                      THEN get_path_to_node(ns, ns[node].failure)
                      ELSE NoneStr,
     is_end |-> ns[node].is_end,
     output |-> ns[node].output]

\* A traversal in dict order (`node.children.items()` without sorted).
TraverseOrderUnsorted(ns, node) == ns[node].children

\* The order traverse visits the children of node in.
TraverseOrder(ns, node) == Sorted(ns[node].children)

\* get_failure_links_representation.traverse: the records appended to result
\* by the call on node, in order.
RECURSIVE traverse(_, _, _)
RECURSIVE TraverseChildren(_, _, _, _, _)
traverse(ns, node, path) ==
    (IF ns[node].node_id # None THEN <<NodeRecord(ns, node, path)>> ELSE <<>>)
        \o TraverseChildren(ns, node, path, TraverseOrder(ns, node), 1)
TraverseChildren(ns, node, path, items, i) ==
    IF i > Len(items)
    THEN <<>>
    ELSE traverse(ns, items[i][2], Append(path, items[i][1]))
             \o TraverseChildren(ns, node, path, items, i + 1)

get_failure_links_representation(ns) == traverse(ns, Root, <<>>)

\* No value of an introspection call is held.
NoReturn == [op |-> "none"]

(* ------------------------------ actions -------------------------------- *)
Init ==
    /\ nodes = NewAutomaton.nodes
    /\ node_counter = NewAutomaton.node_counter
    /\ pc = "idle"
    /\ queue = <<>>
    /\ inserted = <<>>
    /\ builds = 0
    /\ dirty = FALSE
    /\ before = <<>>
    /\ enqueued = <<>>
    /\ dequeued = <<>>
    /\ ret = NoReturn

AddPattern(pattern) ==
    /\ pc = "idle"
    /\ Len(inserted) < MaxAdds
    /\ LET ac == add_pattern([nodes |-> nodes, node_counter |-> node_counter], pattern)
       IN  /\ Len(ac.nodes) <= MaxNodes
           /\ nodes' = ac.nodes
           /\ node_counter' = ac.node_counter
    /\ inserted' = Append(inserted, pattern)
    /\ dirty' = (builds > 0)
    /\ before' = <<>>
    /\ enqueued' = <<>>
    /\ dequeued' = <<>>
    /\ ret' = NoReturn
    /\ UNCHANGED <<pc, queue, builds>>

BuildStart ==
    /\ pc = "idle"
    /\ builds < MaxBuilds
    /\ LET st == InitDepthOne(nodes)
       IN  /\ nodes' = st.nodes
           /\ queue' = st.queue
           /\ enqueued' = st.queue
    /\ dequeued' = <<>>
    /\ ret' = NoReturn
    /\ before' = IF builds > 0 /\ ~dirty THEN nodes ELSE <<>>
    /\ pc' = "bfs"
    /\ UNCHANGED <<node_counter, inserted, builds, dirty>>

BuildStep ==
    /\ pc = "bfs"
    /\ queue # <<>>
    /\ LET st == BfsIteration([nodes |-> nodes, queue |-> queue])
       IN  /\ nodes' = st.nodes
           /\ queue' = st.queue
           /\ enqueued' = enqueued \o SubSeq(st.queue, Len(queue), Len(st.queue))
    /\ dequeued' = Append(dequeued, PopLeft(queue).node)
    /\ UNCHANGED <<node_counter, pc, inserted, builds, dirty, before, ret>>

BuildReturn ==
    /\ pc = "bfs"
    /\ queue = <<>>
    /\ pc' = "idle"
    /\ builds' = builds + 1
    /\ dirty' = FALSE
    /\ UNCHANGED <<nodes, node_counter, queue, inserted, before,
                   enqueued, dequeued, ret>>

\* A TrieNode that is no node of this automaton's trie.
ForeignNode == Len(nodes) + 1

GetPathToNode(target_node) ==
    /\ pc = "idle"
    /\ pc' = "returned"
    /\ ret' = [op |-> "get_path_to_node", arg |-> target_node, raised |-> "none",
               value |-> get_path_to_node(nodes, target_node)]
    /\ UNCHANGED <<nodes, node_counter, queue, inserted, builds, dirty, before,
                   enqueued, dequeued>>

GetFailureLinksRepresentation ==
    /\ pc = "idle"
    /\ pc' = "returned"
    /\ ret' = [op |-> "get_failure_links_representation", raised |-> "none",
               value |-> get_failure_links_representation(nodes)]
    /\ UNCHANGED <<nodes, node_counter, queue, inserted, builds, dirty, before,
                   enqueued, dequeued>>

\* The caller is done with the returned value.
DropResult ==
    /\ pc = "returned"
    /\ pc' = "idle"
    /\ ret' = NoReturn
    /\ UNCHANGED <<nodes, node_counter, queue, inserted, builds, dirty, before,
                   enqueued, dequeued>>

Next ==
    \/ \E pattern \in Patterns : AddPattern(pattern)
    \/ BuildStart
    \/ BuildStep
    \/ BuildReturn
    \/ \E target_node \in NodeSet(nodes) \cup {ForeignNode} : GetPathToNode(target_node)
    \/ GetFailureLinksRepresentation
    \/ DropResult

Spec == Init /\ [][Next]_vars

(* -------------------- vocabulary of the properties --------------------- *)
\* The parent of a non-root node and the character on the edge into it.
HasEdge(ns, m, n) == \E i \in 1..Len(ns[m].children) : ns[m].children[i][2] = n
ParentOf(ns, n) == CHOOSE m \in NodeSet(ns) : HasEdge(ns, m, n)
EdgeChar(ns, n) ==
    LET m == ParentOf(ns, n)
        i == CHOOSE j \in 1..Len(ns[m].children) : ns[m].children[j][2] = n
    IN  ns[m].children[i][1]

\* The root path of a node: the characters on the child edges from the root.
RECURSIVE PathOf(_, _)
PathOf(ns, n) ==
    IF n = Root THEN <<>> ELSE Append(PathOf(ns, ParentOf(ns, n)), EdgeChar(ns, n))

Depth(ns, n) == Len(PathOf(ns, n))

IsPrefix(s, t) == Len(s) <= Len(t) /\ SubSeq(t, 1, Len(s)) = s
IsSuffix(s, t) == Len(s) <= Len(t) /\ SubSeq(t, Len(t) - Len(s) + 1, Len(t)) = s
LastChars(t, k) == SubSeq(t, Len(t) - k + 1, Len(t))

Range(f) == {f[i] : i \in DOMAIN f}
IsPrefixOfInserted(s) == \E i \in DOMAIN inserted : IsPrefix(s, inserted[i])

\* Length of the longest proper suffix of path that is a prefix of an inserted
\* pattern (0: only the empty suffix is).
LongestBorder(path) ==
    LET ks == {k \in 0..(Len(path) - 1) : k = 0 \/ IsPrefixOfInserted(LastChars(path, k))}
    IN  CHOOSE k \in ks : \A j \in ks : j <= k

\* The nodes on the chain of failure links from n to the root, both included.
RECURSIVE FailureChain(_, _)
FailureChain(ns, n) ==
    IF n = Root \/ ns[n].failure = None \/ ns[n].failure = n
    THEN {n}
    ELSE {n} \cup FailureChain(ns, ns[n].failure)

\* The patterns add_pattern was called with whose walk ended at node n.
EndingAt(ns, n) == {inserted[i] : i \in {j \in DOMAIN inserted : inserted[j] = PathOf(ns, n)}}

NonEmptyOnly == \A i \in DOMAIN inserted : inserted[i] # <<>>

\* No call in progress, the links built and no add_pattern since.
Built == pc = "idle" /\ builds >= 1 /\ ~dirty
\* add_pattern calls with non-empty patterns followed by one build call.
BuiltOnce == Built /\ builds = 1 /\ NonEmptyOnly

(* ------------------------------ claims --------------------------------- *)
\* C1: after add_pattern calls with non-empty patterns and one build, the
\* failure link of every non-root node n is the node whose root path is the
\* longest proper suffix of n's root path that is a prefix of an inserted
\* pattern (the root when only the empty suffix is).
C1_FailureIsLongestSuffix ==
    BuiltOnce =>
        \A n \in NodeSet(nodes) \ {Root} :
            /\ nodes[n].failure \in NodeSet(nodes)
            /\ PathOf(nodes, nodes[n].failure)
                   = LastChars(PathOf(nodes, n), LongestBorder(PathOf(nodes, n)))

\* A built automaton in which some node fails to a node of depth 2 or more
\* and some node of depth 2 or more fails to the root.
C1_Witness ==
    /\ BuiltOnce
    /\ \E n \in NodeSet(nodes) : Depth(nodes, nodes[n].failure) >= 2
    /\ \E n \in NodeSet(nodes) : Depth(nodes, n) >= 2 /\ nodes[n].failure = Root

\* C2: after add_pattern calls with non-empty patterns and one build, the set
\* of patterns in n.output is exactly the set of inserted patterns ending at a
\* node of n's failure chain, which is the set of inserted patterns that are
\* suffixes of n's root path.
C2_OutputIsSuffixPatterns ==
    BuiltOnce =>
        \A n \in NodeSet(nodes) :
            /\ Range(nodes[n].output)
                   = UNION {EndingAt(nodes, m) : m \in FailureChain(nodes, n)}
            /\ Range(nodes[n].output)
                   = {p \in Range(inserted) : IsSuffix(p, PathOf(nodes, n))}

\* A built automaton with a node whose output holds a pattern that does not
\* end at it.
C2_Witness ==
    /\ BuiltOnce
    /\ \E n \in NodeSet(nodes) :
           \E p \in Range(nodes[n].output) : p # PathOf(nodes, n)

\* C3: once the links are built, every pattern in n.failure.output is in
\* n.output, for every node n.
C3_OutputSuperset ==
    Built =>
        \A n \in NodeSet(nodes) :
            nodes[n].failure # None =>
                Range(nodes[nodes[n].failure].output) \subseteq Range(nodes[n].output)

\* C4: after build_failure_links the failure node of every non-root node is
\* strictly shallower than the node, so no non-root node fails to itself.
C4_FailureShallower ==
    Built =>
        \A n \in NodeSet(nodes) \ {Root} :
            /\ nodes[n].failure \in NodeSet(nodes)
            /\ Depth(nodes, nodes[n].failure) < Depth(nodes, n)
            /\ nodes[n].failure # n

\* A built automaton with a repeated character on a path (the case the
\* self-reference guard is written for) and a non-root failure target.
C4_Witness ==
    /\ Built
    /\ \E n \in NodeSet(nodes) \ {Root} :
           /\ nodes[n].failure # Root
           /\ ParentOf(nodes, n) # Root
           /\ EdgeChar(nodes, n) = EdgeChar(nodes, ParentOf(nodes, n))

\* C5: in every reachable state the root's failure link is the root.
C5_RootSelfLoop == nodes[Root].failure = Root

\* A build has run over a trie with nodes below the root, and patterns were
\* added after it.
C5_Witness ==
    /\ builds >= 1
    /\ dirty
    /\ Len(nodes) > 2
    /\ nodes[Root].failure = Root

\* The step is an add_pattern call; its argument is the last entry of inserted'.
AddStep == Len(inserted') = Len(inserted) + 1
AddedPattern == inserted'[Len(inserted')]

\* C6: add_pattern with the empty pattern leaves the automaton unchanged: the
\* root is not marked terminal and nothing is appended to its output.
C6_EmptyPatternRejected ==
    [][(AddStep /\ AddedPattern = <<>>)
           => (nodes' = nodes /\ node_counter' = node_counter)]_vars

\* C7: a build call on an automaton whose links are already built, with no
\* add_pattern in between, leaves every node's output sequence and failure
\* link as they were before the call.
C7_SecondBuildNoOp ==
    (pc = "idle" /\ before # <<>>) =>
        \A n \in NodeSet(nodes) :
            /\ nodes[n].output = before[n].output
            /\ nodes[n].failure = before[n].failure

\* The ids as __init__ and add_pattern hand them out: the node allocated k-th
\* (the root first) has id k - 1, and node_counter is the number of nodes.
IdsInOrder ==
    /\ nodes[Root].node_id = 0
    /\ \A n \in NodeSet(nodes) : nodes[n].node_id = n - 1
    /\ \A m, n \in NodeSet(nodes) : m # n => nodes[m].node_id # nodes[n].node_id
    /\ node_counter = Len(nodes)

\* The step keeps every node and its id.
IdsStable ==
    \A n \in NodeSet(nodes) :
        n \in NodeSet(nodes') /\ nodes'[n].node_id = nodes[n].node_id

\* C8: in every reachable state the root has id 0, the other nodes have ids
\* 1, 2, ... in creation order, ids are unique and node_counter is the number
\* of nodes; no step changes or reuses the id of an existing node.
C8_NodeIds == [][IdsInOrder /\ IdsInOrder' /\ IdsStable]_vars

\* Nodes were created by two add_pattern calls, a build between them.
C8_Witness ==
    /\ Len(inserted) = 2
    /\ builds >= 1
    /\ dirty
    /\ Len(nodes) > 1 + Len(inserted[1])
    /\ Len(inserted[1]) > 0
    /\ IdsInOrder

\* The length of the longest prefix of pattern that is the root path of a node.
ExistingPrefix(ns, pattern) ==
    LET ks == {k \in 0..Len(pattern) :
                   \E n \in NodeSet(ns) : PathOf(ns, n) = SubSeq(pattern, 1, k)}
    IN  CHOOSE k \in ks : \A j \in ks : j <= k

\* What an add_pattern step may do to the trie.
AddOnlyGrows ==
    LET k == ExistingPrefix(nodes, AddedPattern) IN
    /\ \A n \in NodeSet(nodes) :
           /\ n \in NodeSet(nodes')
           /\ nodes'[n].node_id = nodes[n].node_id
           /\ nodes'[n].failure = nodes[n].failure
           /\ IsPrefix(nodes[n].children, nodes'[n].children)
    /\ Len(nodes') - Len(nodes) = Len(AddedPattern) - k
    /\ \A j \in (k + 1)..Len(AddedPattern) :
           \E n \in NodeSet(nodes') \ NodeSet(nodes) :
               PathOf(nodes', n) = SubSeq(AddedPattern, 1, j)

\* C9: add_pattern keeps every node, with its id, its failure link and its
\* child edges (new edges only come after them), and creates exactly one node
\* per character of the pattern beyond the longest prefix already in the trie,
\* so none when the whole path exists.
C9_AddOnlyGrows == [][AddStep => AddOnlyGrows]_vars

\* Two patterns were added, the second sharing a non-empty proper prefix with
\* the first and branching off it at a node that already had a child.
C9_Witness ==
    /\ Len(inserted) = 2
    /\ \E k \in 1..(Len(inserted[2]) - 1) :
           /\ k < Len(inserted[1])
           /\ SubSeq(inserted[1], 1, k) = SubSeq(inserted[2], 1, k)
           /\ inserted[1][k + 1] # inserted[2][k + 1]
           /\ Len(nodes) = 1 + Len(inserted[1]) + Len(inserted[2]) - k

\* The automaton built from scratch by add_pattern calls in the order of ps.
RECURSIVE AddAll(_, _, _)
AddAll(ac, ps, i) ==
    IF i > Len(ps) THEN ac ELSE AddAll(add_pattern(ac, ps[i]), ps, i + 1)

\* The call sequences that insert the same collection in another order.
Reorderings(ps) ==
    {[i \in DOMAIN ps |-> ps[f[i]]] : f \in Permutations(DOMAIN ps)}

\* What is compared: per root path, the terminal flag; and, once built, the
\* root path of the failure node and the set of patterns in the output.
Shape(ns) ==
    {[path |-> PathOf(ns, n), is_end |-> ns[n].is_end] : n \in NodeSet(ns)}
Links(ns) ==
    {[path |-> PathOf(ns, n),
      failure |-> PathOf(ns, ns[n].failure),
      output |-> Range(ns[n].output)] : n \in NodeSet(ns)}

\* C10: inserting the same non-empty patterns in any other order gives the
\* same root paths and terminal flags and, after build_failure_links, the same
\* failure link per path and the same set of patterns per output.
C10_OrderIndependent ==
    (pc = "idle" /\ NonEmptyOnly) =>
        \A ps \in Reorderings(inserted) :
            LET other == AddAll(NewAutomaton, ps, 1).nodes IN
            /\ builds = 0 => Shape(other) = Shape(nodes)
            /\ BuiltOnce => /\ Shape(build_failure_links(other)) = Shape(nodes)
                            /\ Links(build_failure_links(other)) = Links(nodes)

\* Two different non-empty patterns inserted and built, with a non-root
\* failure link, where the other insertion order gives some path another id.
C10_Witness ==
    /\ BuiltOnce
    /\ Len(inserted) = 2
    /\ \E n \in NodeSet(nodes) : nodes[n].failure # Root
    /\ LET other == AddAll(NewAutomaton, <<inserted[2], inserted[1]>>, 1).nodes IN
       \E m \in NodeSet(other), n \in NodeSet(nodes) :
           /\ PathOf(other, m) = PathOf(nodes, n)
           /\ other[m].node_id # nodes[n].node_id

\* The walks from node n along child edges, as (characters from the root,
\* node reached) pairs, n having been reached by path; at most fuel edges long.
RECURSIVE WalksFrom(_, _, _, _)
WalksFrom(ns, n, path, fuel) ==
    {<<path, n>>} \cup
        IF fuel = 0 THEN {}
        ELSE UNION {WalksFrom(ns, ns[n].children[i][2],
                              Append(path, ns[n].children[i][1]), fuel - 1) :
                        i \in 1..Len(ns[n].children)}
Walks(ns) == WalksFrom(ns, Root, <<>>, Len(ns))

\* The add_pattern arguments equal to the root path of n, one entry per call,
\* in call order.
RECURSIVE OwnFrom(_, _)
OwnFrom(path, i) ==
    IF i > Len(inserted) THEN <<>>
    ELSE IF inserted[i] = path THEN <<inserted[i]>> \o OwnFrom(path, i + 1)
    ELSE OwnFrom(path, i + 1)
Own(ns, n) == OwnFrom(PathOf(ns, n), 1)

\* C11: patterns are not deduplicated: before any build the output of every
\* node holds its pattern once per add_pattern call made with it, and in every
\* state, during and after builds too, the output of a node of depth 1 is
\* still exactly that.
C11_NoDeduplication ==
    /\ (builds = 0 /\ pc = "idle") =>
           \A w \in Walks(nodes) : nodes[w[2]].output = OwnFrom(w[1], 1)
    /\ \A i \in 1..Len(nodes[Root].children) :
           LET char == nodes[Root].children[i][1]
               child == nodes[Root].children[i][2]
           IN  nodes[child].output = OwnFrom(<<char>>, 1)

\* The same one-character pattern was inserted twice and the links built.
C11_Witness ==
    /\ Built
    /\ Len(inserted) = 2
    /\ inserted[1] = inserted[2]
    /\ Len(inserted[1]) = 1
    /\ \E n \in NodeSet(nodes) :
           Depth(nodes, n) = 1 /\ nodes[n].output = <<inserted[1], inserted[1]>>

\* C12: once a build has completed, every node has a failure link that refers
\* to a node of the trie, in every later state.
C12_FailureNeverNull ==
    builds >= 1 => \A n \in NodeSet(nodes) : nodes[n].failure \in NodeSet(nodes)

CalledGetPath == pc = "returned" /\ ret.op = "get_path_to_node"
CalledRepresentation == pc = "returned" /\ ret.op = "get_failure_links_representation"

\* C13: get_path_to_node called with a node that is no node of the trie fails
\* with NodeNotFound and returns no value.
C13_ForeignNodeRejected ==
    (CalledGetPath /\ ret.arg \notin NodeSet(nodes)) => ret.raised = "NodeNotFound"

\* The node with a given id (ids are unique).
NodeOfId(ns, id) == CHOOSE n \in NodeSet(ns) : ns[n].node_id = id

\* Depth-first pre-order with children in ascending character order is the
\* lexicographic order of root paths, a path coming before its extensions.
RECURSIVE LexLess(_, _)
LexLess(p, q) ==
    IF p = <<>> THEN q # <<>>
    ELSE IF q = <<>> THEN FALSE
    ELSE IF Head(p) = Head(q) THEN LexLess(Tail(p), Tail(q))
    ELSE Ord(Head(p)) < Ord(Head(q))

\* The root path as the introspection methods print it.
PrintedPath(ns, n) == IF n = Root THEN ROOT ELSE PathOf(ns, n)

\* C14: get_failure_links_representation returns one record per node, in
\* depth-first pre-order with children in sorted-by-character order; a record
\* carries its node's id, path ("ROOT" for the root), terminal flag and output
\* and, for a node that has a failure node, that node's id and path.
C14_RepresentationRecords ==
    CalledRepresentation =>
        \A path \in {[i \in 1..Len(ret.value) |->
                           PathOf(nodes, NodeOfId(nodes, ret.value[i].node_id))]} :
        LET recs == ret.value
            node(i) == NodeOfId(nodes, recs[i].node_id)
        IN  /\ Len(recs) = Len(nodes)
            /\ {recs[i].node_id : i \in 1..Len(recs)}
                   = {nodes[n].node_id : n \in NodeSet(nodes)}
            /\ \A i, j \in 1..Len(recs) :
                   i < j => LexLess(path[i], path[j])
            /\ \A i \in 1..Len(recs) :
                   /\ recs[i].path = PrintedPath(nodes, node(i))
                   /\ recs[i].is_end = nodes[node(i)].is_end
                   /\ recs[i].output = nodes[node(i)].output
                   /\ nodes[node(i)].failure # None =>
                          /\ recs[i].failure_node_id
                                 = nodes[nodes[node(i)].failure].node_id
                          /\ recs[i].failure_path
                                 = PrintedPath(nodes, nodes[node(i)].failure)

\* A representation of a built automaton whose root got its children in
\* descending character order and which has a non-root failure link.
C14_Witness ==
    /\ CalledRepresentation
    /\ builds >= 1
    /\ ~dirty
    /\ Len(nodes[Root].children) = 2
    /\ Ord(nodes[Root].children[1][1]) > Ord(nodes[Root].children[2][1])
    /\ \E i \in 1..Len(ret.value) :
           ret.value[i].failure_path \notin {ROOT, NoneStr, UNKNOWN}

NoDuplicates(q) == \A i, j \in 1..Len(q) : i # j => q[i] # q[j]

\* A build call has returned and add_pattern has not been called since, so
\* enqueued and dequeued are the logs of that call on the present trie.
BuildCompleted == pc # "bfs" /\ builds >= 1 /\ ~dirty

\* C15: build_failure_links runs to its end on every trie: while it runs, the
\* root is never enqueued or dequeued, no node is enqueued or dequeued twice,
\* what was enqueued is what was dequeued followed by the queue, and the
\* iterations done and pending together are at most the number of non-root
\* nodes; when it has returned the queue is empty
\* and every non-root node was enqueued and dequeued exactly once (no node at
\* all for the root-only trie).
C15_BfsVisitsEachNodeOnce ==
    /\ pc = "bfs" =>
           /\ Range(enqueued) \subseteq NodeSet(nodes) \ {Root}
           /\ NoDuplicates(enqueued)
           /\ enqueued = dequeued \o queue
           /\ Len(dequeued) + Len(queue) <= Len(nodes) - 1
    /\ BuildCompleted =>
           /\ queue = <<>>
           /\ enqueued = dequeued
           /\ NoDuplicates(dequeued)
           /\ Range(dequeued) = NodeSet(nodes) \ {Root}

\* A build has returned on a trie with a branching root and a node of depth 2.
C15_Witness ==
    /\ BuildCompleted
    /\ Len(nodes[Root].children) = 2
    /\ \E n \in NodeSet(nodes) : Depth(nodes, n) >= 2
    /\ Len(dequeued) = Len(nodes) - 1

\* C16: nodes are dequeued in non-decreasing depth, and when a node is about to
\* be dequeued and its children processed, every node no deeper than it (so
\* every node shallower than those children: the nodes the candidate walk
\* visits and the failure node it chooses) already has the failure link and
\* the output it has when this build call returns.
C16_ShallowerNodesFinal ==
    pc = "bfs" =>
        \A depth \in {[n \in NodeSet(nodes) |-> Depth(nodes, n)]} :
        /\ \A i, j \in 1..Len(dequeued) :
               i < j => depth[dequeued[i]] <= depth[dequeued[j]]
        /\ queue # <<>> =>
               \A final \in {RunBfs([nodes |-> nodes, queue |-> queue])} :
               LET current == PopLeft(queue).node
               IN  /\ \A i \in 1..Len(dequeued) : depth[dequeued[i]] <= depth[current]
                   /\ \A n \in NodeSet(nodes) :
                          depth[n] <= depth[current] =>
                              /\ nodes[n].failure = final[n].failure
                              /\ nodes[n].output = final[n].output
                   /\ \A i \in 1..Len(nodes[current].children) :
                          LET char == nodes[current].children[i][1]
                              child == nodes[current].children[i][2]
                          IN  depth[FailureTarget(nodes, current, char, child)]
                                  <= depth[current]

\* Mid-build, with nodes of depth 1 and 2 dequeued, a node waiting whose
\* child will get a non-root failure node.
C16_Witness ==
    /\ pc = "bfs"
    /\ queue # <<>>
    /\ \E i \in 1..Len(dequeued) : Depth(nodes, dequeued[i]) = 1
    /\ Depth(nodes, PopLeft(queue).node) >= 2
    /\ LET current == PopLeft(queue).node IN
       \E i \in 1..Len(nodes[current].children) :
           FailureTarget(nodes, current, nodes[current].children[i][1],
                         nodes[current].children[i][2]) # Root

\* All add_pattern calls came first, then exactly one build call, now returned.
OneBuildDone == pc # "bfs" /\ builds = 1 /\ ~dirty

\* After one build, the output of a node of depth 2 or more is its own
\* patterns in insertion order, then the whole output of its failure node.
OwnThenFailureOutput ==
    \A w \in Walks(nodes) :
        Len(w[1]) >= 2 =>
            nodes[w[2]].output = OwnFrom(w[1], 1) \o nodes[nodes[w[2]].failure].output

\* The step belongs to a build_failure_links call.
BuildCallStep == pc = "bfs" \/ pc' = "bfs"

\* C17: after one build_failure_links call the output of every node of depth 2
\* or more is the patterns inserted at it, in insertion order, followed by the
\* complete final output of its failure node; and no step of any build call
\* removes or reorders what a node's output held before the step.
C17_OutputSequence ==
    [][/\ OneBuildDone' => OwnThenFailureOutput'
       /\ BuildCallStep =>
              \A n \in NodeSet(nodes) : IsPrefix(nodes[n].output, nodes'[n].output)]_vars

\* One build done over a trie where a terminal node of depth 2 or more fails
\* to a node with a non-empty output.
C17_Witness ==
    /\ OneBuildDone
    /\ NonEmptyOnly
    /\ \E n \in NodeSet(nodes) :
           /\ Depth(nodes, n) >= 2
           /\ Own(nodes, n) # <<>>
           /\ nodes[nodes[n].failure].output # <<>>
           /\ nodes[n].output = Own(nodes, n) \o nodes[nodes[n].failure].output

\* The node the walk of p from node n along child edges ends at, from
\* position i on; None when an edge is missing.
RECURSIVE WalkFrom(_, _, _, _)
WalkFrom(ns, n, p, i) ==
    IF i > Len(p) THEN n
    ELSE LET js == {j \in 1..Len(ns[n].children) : ns[n].children[j][1] = p[i]}
         IN  IF js = {} THEN None
             ELSE WalkFrom(ns, ns[n].children[CHOOSE j \in js : TRUE][2], p, i + 1)
WalkTo(ns, p) == WalkFrom(ns, Root, p, 1)

\* The prefixes of the add_pattern arguments, the empty one included.
InsertedPrefixes ==
    UNION {{SubSeq(inserted[i], 1, k) : k \in 0..Len(inserted[i])} : i \in DOMAIN inserted}
        \cup {<<>>}

\* The part of C18 about the shape, walks being the walks of the trie: every
\* node is the end of exactly one walk from the root (so the root has no parent and every other node exactly one),
\* no two nodes have the same root path, every prefix of an inserted pattern
\* is the root path of a node, and a node is terminal iff an inserted pattern
\* is its root path.
PrefixTreeShape(walks) ==
    LET paths == {w[1] : w \in walks}
    IN  /\ Cardinality(walks) = Len(nodes)
        /\ {w[2] : w \in walks} = NodeSet(nodes)
        /\ Cardinality(paths) = Len(nodes)
        /\ InsertedPrefixes \subseteq paths
        /\ {w[1] : w \in {v \in walks : nodes[v[2]].is_end}} = Range(inserted)

\* C18 as stated: in every reachable state the trie has that shape and the
\* root path of every node, the root included, is a prefix of some inserted
\* pattern.
C18_AsStated ==
    \A walks \in {Walks(nodes)} :
        /\ PrefixTreeShape(walks)
        /\ \A w \in walks : IsPrefixOfInserted(w[1])

\* C18, amended: in every reachable state the trie has that shape and the root
\* path of every node other than the root is a prefix of some inserted
\* pattern; the root is there from construction, before any pattern is.
C18_TrieIsPrefixTree ==
    \A walks \in {Walks(nodes)} :
        /\ PrefixTreeShape(walks)
        /\ \A w \in walks : w[2] # Root => IsPrefixOfInserted(w[1])

\* Two patterns share a first character and then part; one node is terminal
\* and has a child, another is neither terminal nor a leaf nor the root.
C18_Witness ==
    /\ Len(inserted) = 2
    /\ Len(nodes[Root].children) = 1
    /\ \E n \in NodeSet(nodes) : Len(nodes[n].children) = 2
    /\ \E n \in NodeSet(nodes) \ {Root} :
           ~nodes[n].is_end /\ nodes[n].children # <<>>
    /\ \E n \in NodeSet(nodes) : nodes[n].is_end /\ nodes[n].children = <<>>

\* C19: get_path_to_node called with a node of the trie returns "ROOT" for the
\* root and otherwise the one character sequence whose walk from the root
\* along child edges ends at that node; the path of each record of
\* get_failure_links_representation is what get_path_to_node returns for the
\* record's node, and that walk again.
C19_PathIsTheWalk ==
    /\ (CalledGetPath /\ ret.arg \in NodeSet(nodes)) =>
           IF ret.arg = Root
           THEN ret.value = ROOT
           ELSE /\ WalkTo(nodes, ret.value) = ret.arg
                /\ \A w \in Walks(nodes) : w[2] = ret.arg => w[1] = ret.value
    /\ CalledRepresentation =>
           \A i \in 1..Len(ret.value) :
               LET n == NodeOfId(nodes, ret.value[i].node_id) IN
               /\ ret.value[i].path = get_path_to_node(nodes, n)
               /\ n # Root => WalkTo(nodes, ret.value[i].path) = n

\* get_path_to_node has returned for a node of depth 2 or more below the
\* root's second child: the search went through the first subtree in vain.
C19_Witness ==
    /\ CalledGetPath
    /\ ret.arg \in NodeSet(nodes)
    /\ Len(nodes[Root].children) = 2
    /\ nodes[nodes[Root].children[1][2]].children # <<>>
    /\ Len(ret.value) >= 2
    /\ ret.value[1] = nodes[Root].children[2][1]
    /\ WalkTo(nodes, ret.value) = ret.arg

\* For the children of current from position i on, each in the state the for
\* loop reaches it in: the candidate's child for the character, when there is
\* one, is another node than the child, and when there is none the candidate
\* is the root.
RECURSIVE GuardNeverDecides(_, _, _)
GuardNeverDecides(ns, current, i) ==
    IF i > Len(ns[current].children)
    THEN TRUE
    ELSE LET char == ns[current].children[i][1]
             child == ns[current].children[i][2]
             failure_node == Candidate(ns, current, char)
         IN  /\ HasChild(ns, failure_node, char) =>
                    GetChild(ns, failure_node, char) # child
             /\ ~HasChild(ns, failure_node, char) => failure_node = Root
             /\ (FailureTarget(ns, current, char, child) = Root) <=>
                    (failure_node = Root /\ ~HasChild(ns, Root, char))
             /\ GuardNeverDecides(ProcessChild(ns, current, char, child), current, i + 1)

\* C20: in build_failure_links the self-reference guard never decides: when
\* the candidate has a child for the character it is not the child being
\* processed, so the failure link is the root only when the candidate is the
\* root and the root has no child for the character.
C20_GuardNeverDecides ==
    (pc = "bfs" /\ queue # <<>>) => GuardNeverDecides(nodes, PopLeft(queue).node, 1)

\* Mid-build, the node about to be dequeued has a child by the character it
\* was itself reached by, and the candidate for that child has such a child.
C20_Witness ==
    /\ pc = "bfs"
    /\ queue # <<>>
    /\ LET current == PopLeft(queue).node IN
       \E i \in 1..Len(nodes[current].children) :
           LET char == nodes[current].children[i][1] IN
           /\ EdgeChar(nodes, current) = char
           /\ HasChild(nodes, Candidate(nodes, current, char), char)
           /\ Depth(nodes, current) >= 2

====
